---- MODULE Spec2Model ----
(***************************************************************************)
(* A model of the pto IRC <-> Matrix bridge (src/src/bridge.rs) and of the *)
(* part of the Matrix client it drives (src/src/matrix/client.rs).         *)
(*                                                                         *)
(* Strings are TLA+ strings, Vec<T> is a sequence, Option<T> is a sequence *)
(* of length 0 (None) or 1 (Some).                                         *)
(***************************************************************************)
EXTENDS Integers, Sequences, FiniteSets, TLC

VARIABLES
    rooms,          \* Bridge.rooms: RoomID -> Room
    seen_events,    \* Bridge.seen_events: Vec<EventID>
    uid,            \* Bridge.matrix.uid: Option<UserID>
    next_id,        \* Bridge.matrix.next_id
    domain,         \* host of Bridge.matrix.baseurl
    auth,           \* Bridge.client.auth: the pending username/password pair
    sent,           \* what the latest reactor handler wrote to the IRC client
    handling,       \* what that handler handled: the IRC message read, or the
                    \* remote event of its handle_matrix call
    status,         \* "running", or "panicked" once the reactor thread panicked
    reactor,        \* where the reactor thread is: idle, or blocked in matrix.send
    channel,        \* the mio notify channel: queue of bridge Events
    workers,        \* the poll threads spawned so far
    server,         \* the homeserver: the events this session's sends created,
                    \* the number of initial syncs it served, its answer to
                    \* the latest login and the list its latest sync returned
    delivered       \* number of remote events the homeserver returned so far

vars == <<rooms, seen_events, uid, next_id, domain, auth, sent, handling, status,
          reactor, channel, workers, server, delivered>>

----------------------------------------------------------------------------
(* Bounds of the model *)

\* remote events the homeserver returns in SpecEvents
MaxEvents == 3
\* remote events the homeserver returns in Spec
MaxRemote == 2
\* poll threads spawned in Spec
MaxPolls == 2
\* events sent to the homeserver in Spec
MaxSends == 1

----------------------------------------------------------------------------
(* Option<T> and string helpers of the Rust standard library *)

None == <<>>
Some(x) == <<x>>
IsSome(o) == o # None
Unwrap(o) == o[1]

\* Vec::contains
Contains(v, x) == \E i \in 1..Len(v) : v[i] = x

\* Iterator::position: the first index holding x, 0 when there is none
Position(v, x) ==
    IF Contains(v, x) THEN CHOOSE i \in 1..Len(v) : v[i] = x /\ \A j \in 1..(i-1) : v[j] # x
    ELSE 0

\* Vec::remove(idx)
Remove(v, idx) == SubSeq(v, 1, idx - 1) \o SubSeq(v, idx + 1, Len(v))

\* str::ends_with
EndsWith(s, suffix) ==
    /\ Len(s) >= Len(suffix)
    /\ SubSeq(s, Len(s) - Len(suffix) + 1, Len(s)) = suffix

\* str::trim: strips leading and trailing spaces
RECURSIVE TrimStart(_)
TrimStart(s) ==
    IF Len(s) > 0 /\ SubSeq(s, 1, 1) = " " THEN TrimStart(SubSeq(s, 2, Len(s))) ELSE s

RECURSIVE TrimEnd(_)
TrimEnd(s) ==
    IF Len(s) > 0 /\ SubSeq(s, Len(s), Len(s)) = " " THEN TrimEnd(SubSeq(s, 1, Len(s) - 1)) ELSE s

Trim(s) == TrimEnd(TrimStart(s))

\* [String]::join(sep)
RECURSIVE JoinStr(_, _)
JoinStr(strs, sep) ==
    IF Len(strs) = 0 THEN ""
    ELSE IF Len(strs) = 1 THEN strs[1]
    ELSE strs[1] \o sep \o JoinStr(Tail(strs), sep)

----------------------------------------------------------------------------
(* IRC messages built by the bridge *)

RPL_NAMREPLY == 353

\* UserPrefix with the homeserver and the second nickname exchanged
UserPrefix_Exchanged(user) ==
    user.nickname \o "!" \o user.homeserver \o "@" \o user.nickname

\* format!("{}!{}@{}", user.nickname, user.nickname, user.homeserver)
UserPrefix(user) == user.nickname \o "!" \o user.nickname \o "@" \o user.homeserver

IrcMessage(prefix, command, args, suffix) ==
    [prefix |-> prefix, command |-> command, args |-> args, suffix |-> suffix]

----------------------------------------------------------------------------
(* Room *)

\* Room::new
Room_new(id) ==
    [id |-> id,
     canonical_alias |-> None,
     join_rules |-> None,
     members |-> <<>>,
     pending_events |-> <<>>,
     aliases |-> <<>>,
     pending_sync |-> TRUE,
     irc_name |-> None]

\* The result of a Room method: the room afterwards, the messages handed to
\* the callback in order, and whether the method panicked.
Result(room, out) == [room |-> room, out |-> out, panicked |-> FALSE]

\* res, with the messages out handed to the callback before those of res
After(out, res) == [res EXCEPT !.out = out \o @]

\* Room::handle_part
Room_handle_part(room, user) ==
    Result([room EXCEPT !.members =
                IF Position(@, user) # 0 THEN Remove(@, Position(@, user)) ELSE @],
           IF IsSome(room.irc_name) /\ Contains(room.members, user)
           THEN <<IrcMessage(Some(UserPrefix(user)), <<"Part">>,
                             <<Unwrap(room.irc_name)>>, None)>>
           ELSE <<>>)

\* Room::handle_join
Room_handle_join(room, user) ==
    Result([room EXCEPT !.members = Append(@, user)],
           IF IsSome(room.irc_name) /\ ~Contains(room.members, user)
           THEN <<IrcMessage(Some(UserPrefix(user)), <<"Join">>,
                             <<Unwrap(room.irc_name)>>, None)>>
           ELSE <<>>)

\* Room::handle_with_alias dropping the event of a room without a name
Room_handle_with_alias_Dropping(room, evt) ==
    IF IsSome(room.irc_name) THEN
        CASE evt.type = "Message" ->
                Result(room, <<IrcMessage(Some(UserPrefix(evt.user)), <<"Privmsg">>,
                                          <<Unwrap(room.irc_name)>>, Some(evt.text))>>)
          [] evt.type = "Topic" ->
                Result(room, <<IrcMessage(Some(UserPrefix(evt.user)), <<"Topic">>,
                                          <<Unwrap(room.irc_name)>>, Some(evt.text))>>)
          [] OTHER -> Result(room, <<>>)
    ELSE Result(room, <<>>)

\* Room::handle_with_alias
Room_handle_with_alias(room, evt) ==
    IF IsSome(room.irc_name) THEN
        CASE evt.type = "Membership" -> Result(room, <<>>)
          [] evt.type = "Message" ->
                Result(room, <<IrcMessage(Some(UserPrefix(evt.user)), <<"Privmsg">>,
                                          <<Unwrap(room.irc_name)>>, Some(evt.text))>>)
          [] evt.type = "Topic" ->
                Result(room, <<IrcMessage(Some(UserPrefix(evt.user)), <<"Topic">>,
                                          <<Unwrap(room.irc_name)>>, Some(evt.text))>>)
          [] OTHER -> Result(room, <<>>)
    ELSE
        Result([room EXCEPT !.pending_events = Append(@, evt)], <<>>)

\* Vec::pop on pending_events: the element taken (the LAST one), and the room left
Popped(room) == room.pending_events[Len(room.pending_events)]
AfterPop(room) ==
    [room EXCEPT !.pending_events = SubSeq(@, 1, Len(@) - 1)]

\* The loop of Room::run_pending
RECURSIVE RunPendingLoop(_)
RECURSIVE RunPendingRest(_)
RunPendingRest(one) == After(one.out, RunPendingLoop(one.room))

RunPendingLoop(room) ==
    IF Len(room.pending_events) = 0 THEN Result(room, <<>>)
    ELSE RunPendingRest(Room_handle_with_alias(AfterPop(room), Popped(room)))

\* Room::run_pending
Room_run_pending(room) ==
    IF ~room.pending_sync THEN [room |-> room, out |-> <<>>, panicked |-> TRUE]
    ELSE RunPendingLoop(room)

\* The first loop of Room::finish_sync without its break: the last alias
\* ending in suffix
RECURSIVE LastEndingWith(_, _)
LastEndingWith(aliases, suffix) ==
    IF Len(aliases) = 0 THEN None
    ELSE IF IsSome(LastEndingWith(Tail(aliases), suffix))
         THEN LastEndingWith(Tail(aliases), suffix)
    ELSE IF EndsWith(Head(aliases), suffix) THEN Some(Head(aliases))
    ELSE None

\* The first loop of Room::finish_sync: the first alias ending in suffix
RECURSIVE FirstEndingWith(_, _)
FirstEndingWith(aliases, suffix) ==
    IF Len(aliases) = 0 THEN None
    ELSE IF EndsWith(Head(aliases), suffix) THEN Some(Head(aliases))
    ELSE FirstEndingWith(Tail(aliases), suffix)

\* Room::finish_sync, lines 144-155: the name of a room the loop left unnamed
FallbackName(room) ==
    IF room.canonical_alias = None THEN
        IF Len(room.aliases) = 0
        THEN Some("#" \o room.id.id \o ":" \o room.id.homeserver)
        ELSE Some(room.aliases[1])
    ELSE room.canonical_alias

\* Room::finish_sync, lines 138-155: irc_name after the loop and the fallback
NameAfterLoop(room, matched) ==
    IF IsSome(matched) THEN matched
    ELSE IF room.irc_name # None THEN room.irc_name
    ELSE FallbackName(room)

Room_irc_name(room, my_uid) ==
    NameAfterLoop(room, FirstEndingWith(room.aliases, Trim(":" \o my_uid.homeserver)))

\* usernames of Room::finish_sync
Nicknames(members) == [i \in 1..Len(members) |-> members[i].nickname]

\* Room::finish_sync calling run_pending before it queues the JOIN and the roster
FinishNamed_ReplayFirst(named, my_uid) ==
    [Room_run_pending(named) EXCEPT !.out = @ \o
        <<IrcMessage(Some(UserPrefix(my_uid)), <<"Join">>,
                     <<Unwrap(named.irc_name)>>, None),
          IrcMessage(Some("pto"), <<"Numeric", RPL_NAMREPLY>>,
                     <<my_uid.nickname, "@", Unwrap(named.irc_name)>>,
                     Some(JoinStr(Nicknames(named.members), " ")))>>]

\* Room::finish_sync, lines 156-173, on the room once named
FinishNamed(named, my_uid) ==
    After(<<IrcMessage(Some(UserPrefix(my_uid)), <<"Join">>,
                       <<Unwrap(named.irc_name)>>, None),
            IrcMessage(Some("pto"), <<"Numeric", RPL_NAMREPLY>>,
                       <<my_uid.nickname, "@", Unwrap(named.irc_name)>>,
                       Some(JoinStr(Nicknames(named.members), " ")))>>,
          Room_run_pending(named))

\* Room::finish_sync
Room_finish_sync(room, my_uid) ==
    FinishNamed([room EXCEPT !.irc_name = Room_irc_name(room, my_uid)], my_uid)

\* Room::handle_event without its arms for the events that only set a field
\* or are ignored: they fall to handle_with_alias
Room_handle_event_Buffering(room, evt) ==
    CASE evt.type = "Membership" /\ evt.action = "Join" ->
            Room_handle_join(room, evt.user)
      [] evt.type = "Membership" /\ evt.action = "Leave" ->
            Room_handle_part(room, evt.user)
      [] OTHER -> Room_handle_with_alias(room, evt)

\* Room::handle_event
Room_handle_event(room, evt) ==
    CASE evt.type = "CanonicalAlias" ->
            Result([room EXCEPT !.canonical_alias = Some(evt.name)], <<>>)
      [] evt.type = "JoinRules" ->
            Result([room EXCEPT !.join_rules = Some(evt.rules)], <<>>)
      [] evt.type = "Create" -> Result(room, <<>>)
      [] evt.type = "Aliases" ->
            Result([room EXCEPT !.aliases = evt.aliases], <<>>)
      [] evt.type = "PowerLevels" -> Result(room, <<>>)
      [] evt.type = "HistoryVisibility" -> Result(room, <<>>)
      [] evt.type = "Name" -> Result(room, <<>>)
      [] evt.type = "Avatar" -> Result(room, <<>>)
      [] evt.type = "Membership" /\ evt.action = "Join" ->
            Room_handle_join(room, evt.user)
      [] evt.type = "Membership" /\ evt.action = "Leave" ->
            Room_handle_part(room, evt.user)
      [] evt.type = "Unknown" -> Result(room, <<>>)
      [] OTHER -> Room_handle_with_alias(room, evt)

----------------------------------------------------------------------------
(* Bridge *)

\* Bridge::room_from_matrix: get-or-create, the table afterwards
Bridge_room_from_matrix(rms, id) ==
    IF id \in DOMAIN rms THEN rms ELSE rms @@ (id :> Room_new(id))

\* Bridge::room_from_irc without the comparison of the name: any named room
Bridge_room_from_irc_Any(rms, name) ==
    {id \in DOMAIN rms : IsSome(rms[id].irc_name)}

\* Bridge::room_from_irc: the rooms whose irc_name is the given channel name.
\* The scan keeps the last match of the HashMap's iteration, whose order is
\* unspecified: any of these rooms can be the one returned.
Bridge_room_from_irc(rms, name) ==
    {id \in DOMAIN rms : rms[id].irc_name = Some(name)}

\* The orders in which a HashMap can iterate its keys: any order of the
\* possible keys S, of which the iteration visits those in the table
Orders(S) ==
    {o \in [1..Cardinality(S) -> S] : \A i, j \in 1..Cardinality(S) : i # j => o[i] # o[j]}

\* What a dispatch of Bridge::handle_matrix leaves: the table, the messages
\* queued, and whether it panicked
Dispatched(rms, out, panicked) == [rooms |-> rms, out |-> out, panicked |-> panicked]

\* Bridge::finish_sync: Room::finish_sync on every room, in iteration order
RECURSIVE Bridge_finish_sync(_, _, _)
RECURSIVE FinishRest(_, _, _, _)
FinishRest(rms, muid, order, one) ==
    IF one.panicked THEN Dispatched(rms, one.out, TRUE)
    ELSE After(one.out,
               Bridge_finish_sync([rms EXCEPT ![Head(order)] = one.room], muid, Tail(order)))

Bridge_finish_sync(rms, muid, order) ==
    IF Len(order) = 0 THEN Dispatched(rms, <<>>, FALSE)
    ELSE IF muid = None THEN Dispatched(rms, <<>>, TRUE)
    ELSE FinishRest(rms, muid, order, Room_finish_sync(rms[Head(order)], Unwrap(muid)))

\* Bridge::handle_matrix, line 299: the room's handle_event, stored in the table
InRoom(created, id, res) ==
    Dispatched([created EXCEPT ![id] = res.room], res.out, res.panicked)

\* Bridge::handle_matrix, lines 297-304: the dispatch on the event's data
Dispatch(rms, muid, evt, order) ==
    CASE evt.data.kind = "Room" ->
            InRoom(Bridge_room_from_matrix(rms, evt.data.room_id), evt.data.room_id,
                   Room_handle_event(Bridge_room_from_matrix(rms, evt.data.room_id)[evt.data.room_id],
                                     evt.data.ev))
      [] evt.data.kind = "Typing" -> Dispatched(rms, <<>>, FALSE)
      [] evt.data.kind = "EndOfSync" ->
            Bridge_finish_sync(rms, muid, SelectSeq(order, LAMBDA id : id \in DOMAIN rms))
      [] OTHER -> Dispatched(rms, <<>>, FALSE)

\* Bridge::handle_matrix sending the queued messages last first
Recorded_Reversed(seen, evt, dispatched) ==
    [rooms |-> dispatched.rooms,
     seen_events |-> IF IsSome(evt.id) /\ ~dispatched.panicked
                     THEN Append(seen, Unwrap(evt.id)) ELSE seen,
     messages |-> IF dispatched.panicked THEN <<>>
                  ELSE [i \in 1..Len(dispatched.out) |->
                            dispatched.out[Len(dispatched.out) + 1 - i]],
     panicked |-> dispatched.panicked]

\* Bridge::handle_matrix, lines 306-321: the id is recorded, then the queued
\* messages are sent to the IRC client
Recorded(seen, evt, dispatched) ==
    [rooms |-> dispatched.rooms,
     seen_events |-> IF IsSome(evt.id) /\ ~dispatched.panicked
                     THEN Append(seen, Unwrap(evt.id)) ELSE seen,
     messages |-> IF dispatched.panicked THEN <<>> ELSE dispatched.out,
     panicked |-> dispatched.panicked]

\* Bridge::handle_matrix without its check of seen_events
IsDuplicate_Never(seen, evt) == FALSE

\* Bridge::handle_matrix, lines 286-290
IsDuplicate(seen, evt) ==
    IF IsSome(evt.id) THEN Contains(seen, Unwrap(evt.id)) ELSE FALSE

\* Bridge::handle_matrix: the room table and seen_events afterwards and the
\* messages sent to the IRC client, in order
Bridge_handle_matrix(rms, seen, muid, evt, order) ==
    IF IsDuplicate(seen, evt)
    THEN [rooms |-> rms, seen_events |-> seen, messages |-> <<>>, panicked |-> FALSE]
    ELSE Recorded(seen, evt, Dispatch(rms, muid, evt, order))

----------
(* The homeserver's side: identifiers and the events it can deliver *)

\* model::UserID::from_str: "@nickname:homeserver"
UserID_from_str(s) ==
    LET colon == CHOOSE i \in 1..Len(s) :
                     /\ SubSeq(s, i, i) = ":"
                     /\ \A j \in 1..(i-1) : SubSeq(s, j, j) # ":"
    IN  [nickname |-> SubSeq(s, 2, colon - 1), homeserver |-> SubSeq(s, colon + 1, Len(s))]

Hosts == {"h.org", "oh.org"}
Usernames == {"me"}

bob == [nickname |-> "bob", homeserver |-> "o.org"]
r1 == [id |-> "r1", homeserver |-> "h.org"]
r2 == [id |-> "r2", homeserver |-> "oh.org"]

RoomIDs == {r1, r2}

MatrixEvent(id, data) == [id |-> id, data |-> data]
RoomData(room_id, ev) == [kind |-> "Room", room_id |-> room_id, ev |-> ev]
Message(user, text) == [type |-> "Message", user |-> user, text |-> text]
Topic(user, text) == [type |-> "Topic", user |-> user, text |-> text]
Membership(user, action) == [type |-> "Membership", user |-> user, action |-> action]
Bare(type) == [type |-> type]

\* events::Event values with data EndOfSync, as Client::sync appends it
EndOfSync == MatrixEvent(None, [kind |-> "EndOfSync"])

\* Room events that change the bridge's state or produce IRC traffic
RoomTimeline ==
    { MatrixEvent(Some("$m1"), RoomData(r1, Message(bob, "hi"))),
      MatrixEvent(Some("$m2"), RoomData(r1, Message(bob, "yo"))),
      MatrixEvent(Some("$t1"), RoomData(r1, Topic(bob, "news"))),
      MatrixEvent(Some("$j1"), RoomData(r1, Membership(bob, "Join"))),
      MatrixEvent(None,        RoomData(r1, Membership(bob, "Join"))),
      MatrixEvent(Some("$l1"), RoomData(r1, Membership(bob, "Leave"))),
      MatrixEvent(Some("$i1"), RoomData(r1, Membership(bob, "Invite"))),
      MatrixEvent(Some("$c1"), RoomData(r1, [type |-> "CanonicalAlias", name |-> "#c:o.org"])),
      MatrixEvent(Some("$a1"), RoomData(r1, [type |-> "Aliases",
                                             aliases |-> <<"#a:oh.org", "#b:h.org">>])),
      MatrixEvent(Some("$a2"), RoomData(r1, [type |-> "Aliases", aliases |-> <<"#d:x.org">>])),
      MatrixEvent(Some("$a3"), RoomData(r1, [type |-> "Aliases",
                                             aliases |-> <<"#b:h.org", "#e:h.org">>])),
      MatrixEvent(Some("$r1"), RoomData(r1, [type |-> "JoinRules", rules |-> "public"])),
      MatrixEvent(Some("$m3"), RoomData(r2, Message(bob, "hi"))),
      MatrixEvent(Some("$c2"), RoomData(r2, [type |-> "CanonicalAlias", name |-> "#c:o.org"])) }

\* Events the bridge has no IRC analogue for
OtherTimeline ==
    { MatrixEvent(None, RoomData(r1, Bare("Create"))),
      MatrixEvent(None, RoomData(r1, Bare("PowerLevels"))),
      MatrixEvent(None, RoomData(r1, Bare("HistoryVisibility"))),
      MatrixEvent(None, RoomData(r1, Bare("Name"))),
      MatrixEvent(None, RoomData(r1, Bare("Avatar"))),
      MatrixEvent(None, RoomData(r1, Bare("Unknown"))),
      MatrixEvent(None, [kind |-> "Typing"]),
      MatrixEvent(None, [kind |-> "Presence"]) }

Timeline == RoomTimeline \cup OtherTimeline

----------------------------------------------------------------------------
(* SpecEvents: the reactor handling a stream of remote events after login: *)
(* the list of the initial sync, which ends with EndOfSync, and then the   *)
(* events of the poll batches.                                             *)

Idle == [pc |-> "idle"]

InitEvents ==
    /\ domain \in Hosts
    /\ \E u \in Usernames : uid = Some(UserID_from_str("@" \o u \o ":" \o domain))
    /\ rooms = <<>>
    /\ seen_events = <<>>
    /\ next_id = 0
    /\ auth = [username |-> None, password |-> None]
    /\ sent = <<>>
    /\ handling = None
    /\ status = "running"
    /\ reactor = Idle
    /\ channel = <<>>
    /\ workers = <<>>
    /\ server = [echoes |-> {}, syncs |-> 0, login |-> "ok", state |-> <<>>]
    /\ delivered = 0

\* The bridge after a call of handle_matrix that returned res
Handled(res) ==
    /\ rooms' = res.rooms
    /\ seen_events' = res.seen_events
    /\ sent' = res.messages
    /\ status' = IF res.panicked THEN "panicked" ELSE status

\* handle_matrix on one event, as start_matrix's loop and notify call it
HandleMatrix(evt) ==
    \E order \in Orders(RoomIDs) :
        /\ Handled(Bridge_handle_matrix(rooms, seen_events, uid, evt, order))
        /\ handling' = Some(evt)

DeliverSyncEvent ==
    /\ status = "running"
    /\ server.syncs = 0
    /\ delivered < MaxEvents
    /\ \E evt \in Timeline : HandleMatrix(evt)
    /\ delivered' = delivered + 1
    /\ UNCHANGED <<uid, next_id, domain, auth, reactor, channel, workers, server>>

DeliverEndOfSync ==
    /\ status = "running"
    /\ server.syncs = 0
    /\ HandleMatrix(EndOfSync)
    /\ server' = [server EXCEPT !.syncs = 1]
    /\ UNCHANGED <<uid, next_id, domain, auth, reactor, channel, workers, delivered>>

DeliverPollEvent ==
    /\ status = "running"
    /\ server.syncs = 1
    /\ delivered < MaxEvents
    /\ \E evt \in Timeline : HandleMatrix(evt)
    /\ delivered' = delivered + 1
    /\ UNCHANGED <<uid, next_id, domain, auth, reactor, channel, workers, server>>

NextEvents == DeliverSyncEvent \/ DeliverEndOfSync \/ DeliverPollEvent

SpecEvents == InitEvents /\ [][NextEvents]_vars

----------------------------------------------------------------------------
(* Spec: the whole bridge. The reactor thread serves the IRC client's      *)
(* commands (handle_client, one command per step) and the notify channel;  *)
(* poll threads block in the long poll and feed the channel.               *)

\* The events the homeserver returns in Spec, besides the echoes of sends
SpecTimeline ==
    { MatrixEvent(Some("$m1"), RoomData(r1, Message(bob, "hi"))),
      MatrixEvent(Some("$m3"), RoomData(r2, Message(bob, "hi"))) }

SpecHosts == {"h.org"}
Passwords == {"pw"}
JoinChannels == {"#r1:h.org"}
Channels == {"#r1:h.org", "#r2:oh.org", "#nowhere"}
Texts == {"yo"}

\* Sequences over S of length at most n
RECURSIVE SeqsUpTo(_, _)
SeqsUpTo(S, n) ==
    IF n <= 0 THEN {<<>>}
    ELSE {<<>>} \cup {<<x>> \o t : x \in S, t \in SeqsUpTo(S, n - 1)}

Init ==
    /\ domain \in SpecHosts
    /\ uid = None
    /\ rooms = <<>>
    /\ seen_events = <<>>
    /\ next_id = 0
    /\ auth = [username |-> None, password |-> None]
    /\ sent = <<>>
    /\ handling = None
    /\ status = "running"
    /\ reactor = Idle
    /\ channel = <<>>
    /\ workers = <<>>
    /\ server = [echoes |-> {}, syncs |-> 0, login |-> "none", state |-> <<>>]
    /\ delivered = 0

\* The reactor thread can start a handler
ReactorReady == status = "running" /\ reactor.pc = "idle"

\* Bridge::poll_matrix: one more poll thread, blocked in the long poll
Bridge_poll_matrix(ws) == Append(ws, [pc |-> "polling", evts |-> <<>>, batch |-> <<>>])

\* The poll threads spawned and not finished
Outstanding(ws) == {i \in 1..Len(ws) : ws[i].pc \in {"polling", "sending"}}

\* irc::streams::Client::welcome, join and pong: what they write to the client
Welcome(username) == IrcMessage(Some("pto"), <<"Welcome">>, <<username>>, None)
JoinReply(chan) == IrcMessage(None, <<"Join">>, <<chan>>, None)
Pong == IrcMessage(None, <<"Pong">>, <<>>, None)

\* The loop of Bridge::start_matrix: handle_matrix on every event of the sync
RECURSIVE StartMatrixLoop(_, _, _, _, _)
RECURSIVE StartMatrixRest(_, _, _, _)
StartMatrixRest(muid, rest, order, res) ==
    IF res.panicked THEN res
    ELSE [StartMatrixLoop(res.rooms, res.seen_events, muid, rest, order)
              EXCEPT !.messages = res.messages \o @]

StartMatrixLoop(rms, seen, muid, events, order) ==
    IF Len(events) = 0
    THEN [rooms |-> rms, seen_events |-> seen, messages |-> <<>>, panicked |-> FALSE]
    ELSE StartMatrixRest(muid, Tail(events), order,
                         Bridge_handle_matrix(rms, seen, muid, Head(events), order))

\* Client::sync: the events of the rooms' state, then EndOfSync
Client_sync(state) == Append(state, EndOfSync)

\* Client::login, line 132: the uid of the session
Client_login_uid(username) == Some(UserID_from_str(Trim("@" \o username \o ":" \o domain)))

\* Client::read_message: a message the IRC client sent to the bridge
Read(command, args, suffix) == IrcMessage(None, <<command>>, args, suffix)

\* Command::Pass
Client_Pass ==
    /\ ReactorReady
    /\ \E p \in Passwords :
        /\ auth' = [auth EXCEPT !.password = Some(p)]
        /\ handling' = Some(Read("Pass", <<p>>, None))
    /\ sent' = <<>>
    /\ UNCHANGED <<rooms, seen_events, uid, next_id, domain, status, reactor,
                   channel, workers, server, delivered>>

\* Command::Nick, Command::Quit and the unhandled commands: the bridge's
\* state is left as it is
Client_Nick ==
    /\ ReactorReady
    /\ sent' = <<>>
    /\ \E n \in Usernames : handling' = Some(Read("Nick", <<n>>, None))
    /\ UNCHANGED <<rooms, seen_events, uid, next_id, domain, auth, status, reactor,
                   channel, workers, server, delivered>>

Client_Quit ==
    /\ ReactorReady
    /\ sent' = <<>>
    /\ handling' = Some(Read("Quit", <<>>, None))
    /\ UNCHANGED <<rooms, seen_events, uid, next_id, domain, auth, status, reactor,
                   channel, workers, server, delivered>>

Client_Other ==
    /\ ReactorReady
    /\ sent' = <<>>
    /\ handling' = Some(Read("Who", <<>>, None))
    /\ UNCHANGED <<rooms, seen_events, uid, next_id, domain, auth, status, reactor,
                   channel, workers, server, delivered>>

\* Command::Join
Client_Join ==
    /\ ReactorReady
    /\ \E chan \in JoinChannels :
        /\ sent' = <<JoinReply(chan)>>
        /\ handling' = Some(Read("Join", <<chan>>, None))
    /\ UNCHANGED <<rooms, seen_events, uid, next_id, domain, auth, status, reactor,
                   channel, workers, server, delivered>>

\* Command::Ping
Client_Ping ==
    /\ ReactorReady
    /\ sent' = <<Pong>>
    /\ handling' = Some(Read("Ping", <<>>, None))
    /\ UNCHANGED <<rooms, seen_events, uid, next_id, domain, auth, status, reactor,
                   channel, workers, server, delivered>>

\* Command::User without a password: the handler panics
Client_User_Missing ==
    /\ ReactorReady
    /\ auth.password = None
    /\ auth' = [username |-> None, password |-> None]
    /\ status' = "panicked"
    /\ sent' = <<>>
    /\ \E u \in Usernames : handling' = Some(Read("User", <<u>>, None))
    /\ UNCHANGED <<rooms, seen_events, uid, next_id, domain, reactor,
                   channel, workers, server, delivered>>

\* Command::User, login returns an error and the handler returns normally
Client_User_LoginErr_Continues ==
    /\ ReactorReady
    /\ auth.password # None
    /\ auth' = [username |-> None, password |-> None]
    /\ sent' = <<>>
    /\ \E u \in Usernames : handling' = Some(Read("User", <<u>>, None))
    /\ server' = [server EXCEPT !.login = "err"]
    /\ UNCHANGED <<rooms, seen_events, uid, next_id, domain, status, reactor,
                   channel, workers, delivered>>

\* Command::User, login returns an error: expect("Could not login!") panics
Client_User_LoginErr ==
    /\ ReactorReady
    /\ auth.password # None
    /\ auth' = [username |-> None, password |-> None]
    /\ status' = "panicked"
    /\ sent' = <<>>
    /\ \E u \in Usernames : handling' = Some(Read("User", <<u>>, None))
    /\ server' = [server EXCEPT !.login = "err"]
    /\ UNCHANGED <<rooms, seen_events, uid, next_id, domain, reactor,
                   channel, workers, delivered>>

\* Command::User, login succeeds and sync returns an error: start_matrix
\* returns it and the expect panics
Client_User_SyncErr ==
    /\ ReactorReady
    /\ auth.password # None
    /\ auth' = [username |-> None, password |-> None]
    /\ \E u \in Usernames :
        /\ uid' = Client_login_uid(Trim(u))
        /\ handling' = Some(Read("User", <<u>>, None))
    /\ status' = "panicked"
    /\ sent' = <<>>
    /\ server' = [server EXCEPT !.login = "ok"]
    /\ UNCHANGED <<rooms, seen_events, next_id, domain, reactor,
                   channel, workers, delivered>>

\* start_matrix without its call of poll_matrix: no poll thread is spawned
Started_NoPoll(res, username) ==
    /\ rooms' = res.rooms
    /\ seen_events' = res.seen_events
    /\ status' = IF res.panicked THEN "panicked" ELSE status
    /\ workers' = workers
    /\ sent' = IF res.panicked THEN res.messages
               ELSE Append(res.messages, Welcome(Trim(username)))
    /\ handling' = Some(Read("User", <<username>>, None))

\* The bridge after start_matrix's loop returned res and welcome was sent
Started(res, username) ==
    /\ rooms' = res.rooms
    /\ seen_events' = res.seen_events
    /\ status' = IF res.panicked THEN "panicked" ELSE status
    /\ workers' = IF res.panicked THEN workers ELSE Bridge_poll_matrix(workers)
    /\ sent' = IF res.panicked THEN res.messages
               ELSE Append(res.messages, Welcome(Trim(username)))
    /\ handling' = Some(Read("User", <<username>>, None))

\* Command::User, login and sync succeed: every event of the sync is handled,
\* the first poll thread is spawned, the welcome is sent
Client_User ==
    /\ ReactorReady
    /\ auth.password # None
    /\ Len(workers) < MaxPolls
    /\ auth' = [username |-> None, password |-> None]
    /\ \E u \in Usernames, state \in SeqsUpTo(SpecTimeline, MaxRemote - delivered),
          order \in Orders(RoomIDs) :
        /\ uid' = Client_login_uid(Trim(u))
        /\ delivered' = delivered + Len(state)
        /\ Started(StartMatrixLoop(rooms, seen_events, Client_login_uid(Trim(u)),
                                   Client_sync(state), order), u)
        /\ server' = [server EXCEPT !.syncs = @ + 1, !.login = "ok",
                                     !.state = Client_sync(state)]
    /\ UNCHANGED <<next_id, domain, reactor, channel>>

\* Command::Privmsg to a name no room has: the handler returns
Client_Privmsg_Unknown ==
    /\ ReactorReady
    /\ \E target \in Channels, text \in Texts :
        /\ Bridge_room_from_irc(rooms, target) = {}
        /\ handling' = Some(Read("Privmsg", <<target>>, Some(text)))
    /\ sent' = <<>>
    /\ UNCHANGED <<rooms, seen_events, uid, next_id, domain, auth, status, reactor,
                   channel, workers, server, delivered>>

\* Client::send: the EventID the homeserver gives the next_id-th event sent
SentEventID(n) == "$s" \o ToString(n)

\* Command::Privmsg to the name of a room: Client::send bumps next_id and puts
\* the event; the homeserver stores it, and the reactor thread is blocked
\* until the response arrives
Client_Privmsg ==
    /\ ReactorReady
    /\ next_id < MaxSends
    /\ \E target \in Channels, text \in Texts :
        \E room_id \in Bridge_room_from_irc(rooms, target) :
            /\ IF uid = None
               THEN /\ status' = "panicked"
                    /\ UNCHANGED <<next_id, reactor, server>>
               ELSE /\ next_id' = next_id + 1
                    /\ reactor' = [pc |-> "send", event_id |-> SentEventID(next_id + 1)]
                    /\ server' = [server EXCEPT !.echoes = @ \cup
                           {MatrixEvent(Some(SentEventID(next_id + 1)),
                                        RoomData(room_id, Message(Unwrap(uid), text)))}]
                    /\ UNCHANGED status
            /\ handling' = Some(Read("Privmsg", <<target>>, Some(text)))
    /\ sent' = <<>>
    /\ UNCHANGED <<rooms, seen_events, uid, domain, auth, channel, workers, delivered>>

\* Command::Privmsg, line 412, with the EventID not pushed
RecordSent_Dropped(seen, id) == seen

\* Command::Privmsg, line 412: seen_events.push of the EventID returned
RecordSent(seen, id) == Append(seen, id)

\* Command::Privmsg, line 412: the response holds the EventID, which is
\* pushed on seen_events
Send_Ok ==
    /\ status = "running"
    /\ reactor.pc = "send"
    /\ seen_events' = RecordSent(seen_events, reactor.event_id)
    /\ reactor' = Idle
    /\ UNCHANGED <<rooms, uid, next_id, domain, auth, sent, handling, status,
                   channel, workers, server, delivered>>

\* Command::Privmsg, line 412: the request failed, expect panics
Send_Err ==
    /\ status = "running"
    /\ reactor.pc = "send"
    /\ status' = "panicked"
    /\ UNCHANGED <<rooms, seen_events, uid, next_id, domain, auth, sent, handling, reactor,
                   channel, workers, server, delivered>>

\* Handler::notify, Event::EndPoll
Notify_EndPoll ==
    /\ ReactorReady
    /\ Len(channel) > 0
    /\ Head(channel).kind = "EndPoll"
    /\ Len(workers) < MaxPolls
    /\ channel' = Tail(channel)
    /\ workers' = Bridge_poll_matrix(workers)
    /\ sent' = <<>>
    /\ handling' = None
    /\ UNCHANGED <<rooms, seen_events, uid, next_id, domain, auth, status, reactor,
                   server, delivered>>

\* Handler::notify, Event::Matrix
Notify_Matrix ==
    /\ ReactorReady
    /\ Len(channel) > 0
    /\ Head(channel).kind = "Matrix"
    /\ channel' = Tail(channel)
    /\ HandleMatrix(Head(channel).event)
    /\ UNCHANGED <<uid, next_id, domain, auth, reactor, workers, server, delivered>>

\* The poll thread, AsyncPoll::send returns the events of the chunk
Poll_Returns ==
    /\ status = "running"
    /\ \E w \in 1..Len(workers) :
        /\ workers[w].pc = "polling"
        /\ \E batch \in SeqsUpTo(SpecTimeline \cup server.echoes, MaxRemote - delivered) :
            /\ workers' = [workers EXCEPT ![w] = [pc |-> "sending", evts |-> batch,
                                                  batch |-> batch]]
            /\ delivered' = delivered + Len(batch)
    /\ UNCHANGED <<rooms, seen_events, uid, next_id, domain, auth, sent, handling, status,
                   reactor, channel, server>>

\* The poll thread, AsyncPoll::send returns an error: the thread ends
Poll_Fails ==
    /\ status = "running"
    /\ \E w \in 1..Len(workers) :
        /\ workers[w].pc = "polling"
        /\ workers' = [workers EXCEPT ![w].pc = "failed"]
    /\ UNCHANGED <<rooms, seen_events, uid, next_id, domain, auth, sent, handling, status,
                   reactor, channel, server, delivered>>

\* The poll thread sending the events of the chunk last first
Worker_Send_Reversed ==
    /\ status = "running"
    /\ \E w \in 1..Len(workers) :
        /\ workers[w].pc = "sending"
        /\ IF Len(workers[w].batch) > 0
           THEN /\ channel' = Append(channel, [kind |-> "Matrix", from |-> w,
                                               event |-> workers[w].batch[Len(workers[w].batch)]])
                /\ workers' = [workers EXCEPT ![w].batch = SubSeq(@, 1, Len(@) - 1)]
           ELSE /\ channel' = Append(channel, [kind |-> "EndPoll", from |-> w])
                /\ workers' = [workers EXCEPT ![w].pc = "done"]
    /\ UNCHANGED <<rooms, seen_events, uid, next_id, domain, auth, sent, handling, status,
                   reactor, server, delivered>>

\* The poll thread, lines 332-335: each event is sent on the channel, then EndPoll
Worker_Send ==
    /\ status = "running"
    /\ \E w \in 1..Len(workers) :
        /\ workers[w].pc = "sending"
        /\ IF Len(workers[w].batch) > 0
           THEN /\ channel' = Append(channel, [kind |-> "Matrix", from |-> w,
                                               event |-> Head(workers[w].batch)])
                /\ workers' = [workers EXCEPT ![w].batch = Tail(@)]
           ELSE /\ channel' = Append(channel, [kind |-> "EndPoll", from |-> w])
                /\ workers' = [workers EXCEPT ![w].pc = "done"]
    /\ UNCHANGED <<rooms, seen_events, uid, next_id, domain, auth, sent, handling, status,
                   reactor, server, delivered>>

Next ==
    \/ Client_Pass
    \/ Client_Nick
    \/ Client_Quit
    \/ Client_Other
    \/ Client_Join
    \/ Client_Ping
    \/ Client_User_Missing
    \/ Client_User_LoginErr
    \/ Client_User_SyncErr
    \/ Client_User
    \/ Client_Privmsg_Unknown
    \/ Client_Privmsg
    \/ Send_Ok
    \/ Send_Err
    \/ Notify_EndPoll
    \/ Notify_Matrix
    \/ Poll_Returns
    \/ Poll_Fails
    \/ Worker_Send

Spec == Init /\ [][Next]_vars

----------------------------------------------------------------------------
(* The claims *)

\* Events of the timelines the claims name
EvM1 == MatrixEvent(Some("$m1"), RoomData(r1, Message(bob, "hi")))

\* This step is a handle_matrix call on evt (SpecEvents)
StepHandles(evt) == handling' = Some(evt) /\ delivered' = delivered + 1

\* This step handles the EndOfSync of an initial sync
EndOfSyncStep == server.syncs' = server.syncs + 1

\* evt is a Message or Topic event of a room
IsChat(ev) == ev.type \in {"Message", "Topic"}
IsChatEvent(evt) == evt.data.kind = "Room" /\ IsChat(evt.data.ev)

\* The IRC message a Message or Topic event of a room named name stands for
ChatOf(ev, name) ==
    [prefix |-> Some(ev.user.nickname \o "!" \o ev.user.nickname \o "@" \o ev.user.homeserver),
     command |-> IF ev.type = "Message" THEN <<"Privmsg">> ELSE <<"Topic">>,
     args |-> <<name>>,
     suffix |-> Some(ev.text)]

\* The room has no irc_name in the table rms (or is not in it yet)
Unnamed(rms, id) == id \notin DOMAIN rms \/ rms[id].irc_name = None
PendingIn(rms, id) == IF id \in DOMAIN rms THEN rms[id].pending_events ELSE <<>>

\* C1: an event whose id is already in seen_events is dropped with no side
\* effect: nothing is sent to the client, and the rooms and seen_events are
\* left as they were.
C1_Step ==
    \A evt \in Timeline :
        (StepHandles(evt) /\ IsSome(evt.id) /\ Contains(seen_events, Unwrap(evt.id)))
            => (sent' = <<>> /\ rooms' = rooms /\ seen_events' = seen_events)

C1_DuplicateDropped == [][C1_Step]_vars

\* C1, witness: the Message $m1 was just handled for a named room and nothing
\* was sent, which only its second delivery does
C1_Witness ==
    /\ handling = Some(EvM1)
    /\ r1 \in DOMAIN rooms
    /\ IsSome(rooms[r1].irc_name)
    /\ Contains(seen_events, "$m1")
    /\ sent = <<>>

\* C2: whenever the reactor dispatches the echo of an event this session
\* sent, the EventID is already in seen_events, and the dispatch sends nothing
\* to the client and changes no room.
C2_Step ==
    \A evt \in server.echoes :
        (/\ Len(channel) > 0
         /\ Head(channel).kind = "Matrix"
         /\ Head(channel).event = evt
         /\ channel' = Tail(channel))
            => (/\ Contains(seen_events, Unwrap(evt.id))
                /\ sent' = <<>>
                /\ rooms' = rooms)

C2_EchoSuppressed == [][C2_Step]_vars

\* C2, witness: the echo of a sent event was dispatched by the reactor
C2_Witness ==
    \E evt \in server.echoes :
        /\ handling = Some(evt)
        /\ Contains(seen_events, Unwrap(evt.id))
        /\ reactor.pc = "idle"

\* C3: a Message or Topic event for a room without a name sends nothing and
\* is appended to pending_events; finish_sync sends, for every room, the
\* self JOIN, then the roster, then the message of every buffered event, and
\* leaves pending_events empty.
C3_Buffers ==
    \A evt \in Timeline :
        (/\ StepHandles(evt)
         /\ IsChatEvent(evt)
         /\ ~(IsSome(evt.id) /\ Contains(seen_events, Unwrap(evt.id)))
         /\ Unnamed(rooms, evt.data.room_id))
            => (/\ sent' = <<>>
                /\ rooms'[evt.data.room_id].pending_events =
                       Append(PendingIn(rooms, evt.data.room_id), evt.data.ev))

C3_Flushes ==
    EndOfSyncStep =>
        \A id \in DOMAIN rooms :
            /\ rooms'[id].pending_events = <<>>
            /\ IsSome(rooms'[id].irc_name)
            /\ \E j \in 1..(Len(sent') - 1) :
                /\ sent'[j].command = <<"Join">>
                /\ sent'[j].prefix = Some("me!me@" \o domain)
                /\ sent'[j].args = <<Unwrap(rooms'[id].irc_name)>>
                /\ sent'[j + 1].command = <<"Numeric", 353>>
                /\ sent'[j + 1].args = <<"me", "@", Unwrap(rooms'[id].irc_name)>>
                /\ \A i \in 1..Len(rooms[id].pending_events) :
                       IsChat(rooms[id].pending_events[i]) =>
                           \E k \in (j + 2)..Len(sent') :
                               sent'[k] = ChatOf(rooms[id].pending_events[i],
                                                 Unwrap(rooms'[id].irc_name))

C3_BufferThenFlush == [][C3_Buffers /\ C3_Flushes]_vars

\* C3, witness: finish_sync just ran on a room that had buffered a Message:
\* the JOIN, the roster and then the PRIVMSG were sent
C3_Witness ==
    /\ handling = Some(EndOfSync)
    /\ r1 \in DOMAIN rooms
    /\ rooms[r1].pending_events = <<>>
    /\ Len(sent) = 3
    /\ sent[1].command = <<"Join">>
    /\ sent[3].command = <<"Privmsg">>

\* C4: finish_sync replays the buffered events oldest first: of two Message
\* or Topic events buffered in a room, the message of the one received first
\* is sent before the message of the other.
C4_Step ==
    EndOfSyncStep =>
        \A id \in DOMAIN rooms :
            \A i, j \in 1..Len(rooms[id].pending_events) :
                (i < j /\ IsChat(rooms[id].pending_events[i])
                       /\ IsChat(rooms[id].pending_events[j]))
                    => \E a, b \in 1..Len(sent') :
                        /\ a < b
                        /\ sent'[a] = ChatOf(rooms[id].pending_events[i],
                                             Unwrap(rooms'[id].irc_name))
                        /\ sent'[b] = ChatOf(rooms[id].pending_events[j],
                                             Unwrap(rooms'[id].irc_name))

C4_ReplayedOldestFirst == [][C4_Step]_vars

\* C5: no room's members holds a UserID twice.
C5_MembersUnique ==
    \A id \in DOMAIN rooms :
        \A i, j \in 1..Len(rooms[id].members) :
            i # j => rooms[id].members[i] # rooms[id].members[j]

\* The name C6 gives a room: the first alias ending in ":<homeserver>", else
\* the canonical alias, else the first alias, else "#<id>:<room homeserver>"
PriorityName(room, homeserver) ==
    LET matching == {i \in 1..Len(room.aliases) :
                        EndsWith(room.aliases[i], ":" \o homeserver)}
    IN  IF matching # {}
        THEN room.aliases[CHOOSE i \in matching : \A k \in matching : i <= k]
        ELSE IF room.canonical_alias # None THEN room.canonical_alias[1]
        ELSE IF Len(room.aliases) > 0 THEN room.aliases[1]
        ELSE "#" \o room.id.id \o ":" \o room.id.homeserver

\* C6: finish_sync names every room by the priority: homeserver-matching
\* alias, canonical alias, first alias, synthesized name.
C6_Step ==
    EndOfSyncStep =>
        \A id \in DOMAIN rooms :
            rooms'[id].irc_name = Some(PriorityName(rooms[id], domain))

C6_NamePriority == [][C6_Step]_vars

\* C6, witness: finish_sync just named a room after its second alias, the
\* one of the session's homeserver, although a canonical alias is set
C6_Witness ==
    /\ handling = Some(EndOfSync)
    /\ domain = "h.org"
    /\ r1 \in DOMAIN rooms
    /\ rooms[r1].aliases = <<"#a:oh.org", "#b:h.org">>
    /\ rooms[r1].canonical_alias = Some("#c:o.org")
    /\ rooms[r1].irc_name = Some("#b:h.org")

\* C7: a Message event that is no duplicate, for a room named N, sends
\* exactly one PRIVMSG to N with the prefix nickname!nickname@homeserver of
\* its user and its text as the body; members and pending_events are kept.
C7_Step ==
    \A evt \in Timeline :
        (/\ StepHandles(evt)
         /\ evt.data.kind = "Room"
         /\ evt.data.ev.type = "Message"
         /\ ~(IsSome(evt.id) /\ Contains(seen_events, Unwrap(evt.id)))
         /\ ~Unnamed(rooms, evt.data.room_id))
            => (/\ sent' = <<ChatOf(evt.data.ev, Unwrap(rooms[evt.data.room_id].irc_name))>>
                /\ sent'[1].command = <<"Privmsg">>
                /\ rooms'[evt.data.room_id].members = rooms[evt.data.room_id].members
                /\ rooms'[evt.data.room_id].pending_events =
                       rooms[evt.data.room_id].pending_events)

C7_MessageRoundTrip == [][C7_Step]_vars

\* C7, witness: bob's Message "hi" was just handled for the room named
\* #r1:h.org and one PRIVMSG was sent
C7_Witness ==
    /\ handling = Some(EvM1)
    /\ sent = <<[prefix |-> Some("bob!bob@o.org"), command |-> <<"Privmsg">>,
                 args |-> <<"#r1:h.org">>, suffix |-> Some("hi")]>>

\* C8: a room whose pending_sync is true has no irc_name.
C8_PendingHasNoName ==
    \A id \in DOMAIN rooms : rooms[id].pending_sync => rooms[id].irc_name = None

\* C9: once the EndOfSync of the initial sync is handled, every room of the
\* table has an irc_name and an empty pending_events.
C9_NamedAfterSync ==
    server.syncs >= 1 =>
        \A id \in DOMAIN rooms :
            IsSome(rooms[id].irc_name) /\ rooms[id].pending_events = <<>>

\* C10: at most one poll thread is outstanding.
C10_OnePollWorker == Cardinality(Outstanding(workers)) <= 1

\* The events of poll thread w's chunk the reactor has not dispatched yet:
\* those queued on the channel and those the thread has still to send
Undispatched(w) ==
    Len(SelectSeq(channel, LAMBDA m : m.kind = "Matrix" /\ m.from = w))
        + Len(workers[w].batch)

\* The ids handle_matrix pushes on seen when it handles events in list order
RECURSIVE IdsInOrder(_, _)
IdsInOrder(events, seen) ==
    IF Len(events) = 0 THEN <<>>
    ELSE IF IsSome(Head(events).id) /\ ~Contains(seen, Unwrap(Head(events).id))
         THEN <<Unwrap(Head(events).id)>>
                  \o IdsInOrder(Tail(events), Append(seen, Unwrap(Head(events).id)))
    ELSE IdsInOrder(Tail(events), seen)

\* C11: the reactor dispatches the events of a poll chunk in the order of the
\* chunk, the k-th dispatch of a thread's events being the chunk's k-th
\* event, and handles the chunk's EndPoll when none of its events is left;
\* the events of an initial sync are handled in list order, EndOfSync last:
\* their ids are pushed on seen_events in list order and every room is named
\* with nothing buffered when the handler returns.
C11_PollStep ==
    (Len(channel) > 0 /\ channel' = Tail(channel)) =>
        IF Head(channel).kind = "Matrix"
        THEN handling' = Some(workers[Head(channel).from].evts[
                                  Len(workers[Head(channel).from].evts)
                                      - Undispatched(Head(channel).from) + 1])
        ELSE Undispatched(Head(channel).from) = 0

C11_SyncStep ==
    EndOfSyncStep =>
        /\ seen_events' = seen_events \o IdsInOrder(server'.state, seen_events)
        /\ server'.state[Len(server'.state)] = EndOfSync
        /\ \A id \in DOMAIN rooms' :
               IsSome(rooms'[id].irc_name) /\ rooms'[id].pending_events = <<>>

C11_BatchOrder == [][C11_PollStep /\ C11_SyncStep]_vars

\* C11, witness: the reactor just dispatched the second of the two different
\* events of a poll chunk, and the chunk's EndPoll is still to be handled
C11_Witness ==
    \E w \in 1..Len(workers) :
        /\ Len(workers[w].evts) = 2
        /\ workers[w].evts[1] # workers[w].evts[2]
        /\ Undispatched(w) = 0
        /\ handling = Some(workers[w].evts[2])
        /\ \E i \in 1..Len(channel) : channel[i] = [kind |-> "EndPoll", from |-> w]

\* The welcome reply is among the messages msgs
HasWelcome(msgs) == \E i \in 1..Len(msgs) : msgs[i].command = <<"Welcome">>

\* C12: a USER command that completes the credentials logs in, handles every
\* event of the initial sync (finish_sync on every room), spawns a poll
\* thread and then sends the welcome, which is the last message the handler
\* writes; no room is created, no event id recorded and no poll thread spawned
\* before a login succeeded, and a welcome is written only by a handler that
\* spawned a poll thread.
C12_Step ==
    /\ (rooms' # rooms \/ seen_events' # seen_events \/ Len(workers') > Len(workers))
           => (uid' # None /\ server'.login = "ok")
    /\ (HasWelcome(sent') /\ sent' # sent) => EndOfSyncStep
    /\ EndOfSyncStep =>
           /\ uid' # None
           /\ server'.login = "ok"
           /\ \A id \in DOMAIN rooms' :
                  IsSome(rooms'[id].irc_name) /\ rooms'[id].pending_events = <<>>
           /\ Len(workers') = Len(workers) + 1
           /\ workers'[Len(workers')].pc = "polling"
           /\ Len(sent') > 0
           /\ sent'[Len(sent')].command = <<"Welcome">>
           /\ \A i \in 1..(Len(sent') - 1) : sent'[i].command # <<"Welcome">>

C12_LoginSyncPollWelcome == [][C12_Step]_vars

\* C12, witness: the USER command was just handled: a room of the sync was
\* joined, the first poll thread is in its long poll, the welcome came last
C12_Witness ==
    /\ handling = Some(Read("User", <<"me">>, None))
    /\ status = "running"
    /\ rooms # <<>>
    /\ Len(workers) = 1
    /\ workers[1].pc = "polling"
    /\ Len(sent) >= 3
    /\ sent[1].command = <<"Join">>
    /\ sent[Len(sent)].command = <<"Welcome">>

\* C13: a credential command that leaves the username/password pair
\* incomplete only accumulates: a USER command read while no password is
\* pending neither logs in nor ends the session.
C13_Step ==
    \A u \in Usernames :
        (/\ ReactorReady
         /\ auth.password = None
         /\ handling' = Some(Read("User", <<u>>, None)))
            => (status' = "running" /\ uid' = uid)

C13_CredentialsAccumulate == [][C13_Step]_vars

\* C14: the handler whose login is answered with an error panics: it runs no
\* sync, creates no room, spawns no poll thread and writes nothing to the
\* client; and the reactor, once panicked, takes no further step: no later
\* command or remote event is processed.
C14_Step ==
    /\ status = "running"
    /\ (server'.login = "err" /\ server.login # "err") =>
           /\ status' = "panicked"
           /\ server'.syncs = server.syncs
           /\ rooms' = rooms
           /\ seen_events' = seen_events
           /\ uid' = uid
           /\ workers' = workers
           /\ channel' = channel
           /\ sent' = <<>>

C14_LoginFailureAborts == [][C14_Step]_vars

\* C14, witness: the first login was answered with an error and the session
\* is over, with no room, no poll thread and nothing written to the client
C14_Witness ==
    /\ server.login = "err"
    /\ status = "panicked"
    /\ handling = Some(Read("User", <<"me">>, None))
    /\ uid = None
    /\ rooms = <<>>
    /\ workers = <<>>
    /\ sent = <<>>

\* C15: a PRIVMSG of the client to a channel name that is the irc_name of no
\* room is dropped: no event is sent to the homeserver, the rooms and
\* seen_events are left as they were, nothing is written to the client and
\* the reactor goes on running.
C15_Step ==
    \A target \in Channels, text \in Texts :
        (/\ ReactorReady
         /\ handling' = Some(Read("Privmsg", <<target>>, Some(text)))
         /\ \A id \in DOMAIN rooms : rooms[id].irc_name # Some(target))
            => (/\ next_id' = next_id
                /\ server' = server
                /\ reactor' = reactor
                /\ rooms' = rooms
                /\ seen_events' = seen_events
                /\ sent' = <<>>
                /\ status' = "running")

C15_UnknownTargetDropped == [][C15_Step]_vars

\* C15, witness: a PRIVMSG to #nowhere was just handled while a room has a
\* name; nothing was sent to the homeserver or to the client
C15_Witness ==
    /\ handling = Some(Read("Privmsg", <<"#nowhere">>, Some("yo")))
    /\ \E id \in DOMAIN rooms : IsSome(rooms[id].irc_name)
    /\ next_id = 0
    /\ server.echoes = {}
    /\ sent = <<>>
    /\ status = "running"

\* The Message and Topic events of pending in the order run_pending handles
\* them, as the messages for the channel name
RECURSIVE Replayed(_, _)
Replayed(pending, name) ==
    IF Len(pending) = 0 THEN <<>>
    ELSE IF IsChat(pending[Len(pending)])
         THEN <<ChatOf(pending[Len(pending)], name)>>
                  \o Replayed(SubSeq(pending, 1, Len(pending) - 1), name)
    ELSE Replayed(SubSeq(pending, 1, Len(pending) - 1), name)

\* What identifies a message in a group: a JOIN or a roster by its command
\* and channel name, any other message by all of it
Key(msg) ==
    IF msg.command \in {<<"Join">>, <<"Numeric", 353>>}
    THEN [command |-> msg.command, name |-> msg.args[Len(msg.args)]]
    ELSE msg

\* The groups of the rooms in the given order: for each room the JOIN and
\* the roster for the name it has in after, then the replay of what it had
\* buffered in before
RECURSIVE Groups(_, _, _)
Groups(before, after, order) ==
    IF Len(order) = 0 THEN <<>>
    ELSE <<[command |-> <<"Join">>, name |-> Unwrap(after[Head(order)].irc_name)],
           [command |-> <<"Numeric", 353>>, name |-> Unwrap(after[Head(order)].irc_name)]>>
             \o Replayed(before[Head(order)].pending_events,
                         Unwrap(after[Head(order)].irc_name))
             \o Groups(before, after, Tail(order))

\* C16: what one remote event makes the bridge write to the client is written
\* when its dispatch is over, as one group in the order the dispatch queued
\* it: a room event writes at most one message; the EndOfSync writes, once
\* every room has its name and an empty buffer, nothing but one unbroken run
\* of messages for each room, the rooms in some order: its JOIN, its roster
\* and then its replayed events in the order run_pending took them.
C16_Step ==
    /\ \A evt \in Timeline : StepHandles(evt) => Len(sent') <= 1
    /\ EndOfSyncStep =>
           /\ \A id \in DOMAIN rooms :
                  IsSome(rooms'[id].irc_name) /\ rooms'[id].pending_events = <<>>
           /\ \E order \in Orders(DOMAIN rooms) :
                  [i \in 1..Len(sent') |-> Key(sent'[i])] = Groups(rooms, rooms', order)

C16_QueuedThenSentInOrder == [][C16_Step]_vars

\* C16, witness: the EndOfSync was just handled with two rooms that had each
\* buffered a message: six messages were written
C16_Witness ==
    /\ handling = Some(EndOfSync)
    /\ DOMAIN rooms = {r1, r2}
    /\ Len(sent) = 6
    /\ sent[3].command = <<"Privmsg">>
    /\ sent[4].command = <<"Join">>

\* C17: finish_sync runs at most once for each room: the handling of an
\* EndOfSync writes no self JOIN for a room that an earlier finish_sync has
\* already named.
C17_Step ==
    EndOfSyncStep =>
        \A id \in DOMAIN rooms :
            IsSome(rooms[id].irc_name) =>
                \A i \in 1..Len(sent') :
                    ~(/\ sent'[i].command = <<"Join">>
                      /\ sent'[i].prefix = Some("me!me@" \o domain)
                      /\ sent'[i].args = <<Unwrap(rooms'[id].irc_name)>>)

C17_FinishSyncOnce == [][C17_Step]_vars

\* C18: QUIT ends the session: once the reactor has handled a QUIT it handles
\* no other command, dispatches no remote event and writes nothing to the
\* client.
C18_Step ==
    handling = Some(Read("Quit", <<>>, None)) =>
        (/\ handling' = handling
         /\ sent' = sent
         /\ rooms' = rooms
         /\ seen_events' = seen_events
         /\ auth' = auth)

C18_QuitEndsSession == [][C18_Step]_vars

\* C19: after a Membership(user, Leave) event is applied to a room, user is
\* not among the room's members; a PART for the room's name is sent exactly
\* when the room has a name and user was a member.
C19_Step ==
    \A evt \in Timeline :
        (/\ StepHandles(evt)
         /\ evt.data.kind = "Room"
         /\ evt.data.ev.type = "Membership"
         /\ evt.data.ev.action = "Leave"
         /\ ~(IsSome(evt.id) /\ Contains(seen_events, Unwrap(evt.id))))
            => (/\ \A i \in 1..Len(rooms'[evt.data.room_id].members) :
                       rooms'[evt.data.room_id].members[i] # evt.data.ev.user
                /\ sent' = IF /\ ~Unnamed(rooms, evt.data.room_id)
                              /\ \E i \in 1..Len(rooms[evt.data.room_id].members) :
                                     rooms[evt.data.room_id].members[i] = evt.data.ev.user
                           THEN <<[prefix |-> Some(evt.data.ev.user.nickname \o "!"
                                                   \o evt.data.ev.user.nickname \o "@"
                                                   \o evt.data.ev.user.homeserver),
                                   command |-> <<"Part">>,
                                   args |-> <<Unwrap(rooms[evt.data.room_id].irc_name)>>,
                                   suffix |-> None]>>
                           ELSE <<>>)

C19_LeaveRemovesMember == [][C19_Step]_vars

\* The room id of the table rms as room_from_matrix hands it to handle_event
RoomBefore(rms, id) ==
    IF id \in DOMAIN rms THEN rms[id]
    ELSE [id |-> id, canonical_alias |-> None, join_rules |-> None, members |-> <<>>,
          pending_events |-> <<>>, aliases |-> <<>>, pending_sync |-> TRUE,
          irc_name |-> None]

\* The types of room events that only set a field, and of those ignored
MetadataTypes == {"CanonicalAlias", "JoinRules", "Aliases"}
IgnoredTypes == {"Create", "PowerLevels", "HistoryVisibility", "Name", "Avatar", "Unknown"}

\* C20: a CanonicalAlias, JoinRules or Aliases event sets its own field of
\* the room and no other; Create, PowerLevels, HistoryVisibility, Name, Avatar
\* and Unknown events change no field; Typing and Presence change no room.
\* None of them writes to the client, changes members, pending_events or
\* irc_name, or panics, whether the room has a name or not.
C20_RoomStep ==
    \A evt \in Timeline :
        (/\ StepHandles(evt)
         /\ evt.data.kind = "Room"
         /\ evt.data.ev.type \in MetadataTypes \cup IgnoredTypes
         /\ ~(IsSome(evt.id) /\ Contains(seen_events, Unwrap(evt.id))))
            => (/\ sent' = <<>>
                /\ status' = "running"
                /\ DOMAIN rooms' = DOMAIN rooms \cup {evt.data.room_id}
                /\ \A id \in DOMAIN rooms \ {evt.data.room_id} : rooms'[id] = rooms[id]
                /\ rooms'[evt.data.room_id].id = evt.data.room_id
                /\ rooms'[evt.data.room_id].members
                       = RoomBefore(rooms, evt.data.room_id).members
                /\ rooms'[evt.data.room_id].pending_events
                       = RoomBefore(rooms, evt.data.room_id).pending_events
                /\ rooms'[evt.data.room_id].irc_name
                       = RoomBefore(rooms, evt.data.room_id).irc_name
                /\ rooms'[evt.data.room_id].pending_sync
                       = RoomBefore(rooms, evt.data.room_id).pending_sync
                /\ rooms'[evt.data.room_id].canonical_alias
                       = IF evt.data.ev.type = "CanonicalAlias" THEN <<evt.data.ev.name>>
                         ELSE RoomBefore(rooms, evt.data.room_id).canonical_alias
                /\ rooms'[evt.data.room_id].join_rules
                       = IF evt.data.ev.type = "JoinRules" THEN <<evt.data.ev.rules>>
                         ELSE RoomBefore(rooms, evt.data.room_id).join_rules
                /\ rooms'[evt.data.room_id].aliases
                       = IF evt.data.ev.type = "Aliases" THEN evt.data.ev.aliases
                         ELSE RoomBefore(rooms, evt.data.room_id).aliases)

C20_OtherStep ==
    \A evt \in Timeline :
        (StepHandles(evt) /\ evt.data.kind \in {"Typing", "Presence"})
            => (sent' = <<>> /\ status' = "running" /\ rooms' = rooms)

C20_MetadataOnly == [][C20_RoomStep /\ C20_OtherStep]_vars

\* C20, witness: the Aliases event $a2 was just handled for a room that has
\* its name: the aliases were replaced, the name kept, nothing was written
C20_Witness ==
    /\ handling = Some(MatrixEvent(Some("$a2"),
                       RoomData(r1, [type |-> "Aliases", aliases |-> <<"#d:x.org">>])))
    /\ r1 \in DOMAIN rooms
    /\ rooms[r1].aliases = <<"#d:x.org">>
    /\ IsSome(rooms[r1].irc_name)
    /\ rooms[r1].irc_name # Some("#d:x.org")
    /\ sent = <<>>

\* Some poll thread ended with the error of its long poll
PollFailed == \E w \in 1..Len(workers) : workers[w].pc = "failed"

\* This step is the reactor's dispatch of a remote event from the channel
DispatchStep ==
    Len(channel) > 0 /\ Head(channel).kind = "Matrix" /\ channel' = Tail(channel)

\* C21: a poll thread whose long poll fails sends no event and no EndPoll on
\* the channel and changes neither the rooms nor seen_events, and the reactor
\* goes on running; once a long poll has failed no poll thread is spawned
\* and no remote event is dispatched any more.
C21_Step ==
    /\ (\E w \in 1..Len(workers) : workers[w].pc = "polling" /\ workers'[w].pc = "failed")
           => (/\ channel' = channel
               /\ rooms' = rooms
               /\ seen_events' = seen_events
               /\ status' = "running"
               /\ reactor' = reactor)
    /\ PollFailed => (/\ Len(workers') = Len(workers)
                      /\ ~DispatchStep
                      /\ ~EndOfSyncStep)

C21_PollFailureStopsEvents == [][C21_Step]_vars

\* msg is the JOIN of the session's own user to the channel name
IsSelfJoin(msg, name) ==
    /\ msg.command = <<"Join">>
    /\ msg.prefix = Some("me!me@" \o domain)
    /\ msg.args = <<name>>

\* msg is traffic of another user for the channel name
IsTraffic(msg, name) ==
    /\ msg.command \in {<<"Join">>, <<"Part">>, <<"Privmsg">>, <<"Topic">>}
    /\ msg.prefix # None
    /\ msg.prefix # Some("me!me@" \o domain)
    /\ msg.args = <<name>>

\* The channel names the rooms of rms have
NamesOf(rms) == {rms[id].irc_name[1] : id \in {i \in DOMAIN rms : IsSome(rms[i].irc_name)}}

\* C22: the client gets a JOIN, PART, PRIVMSG or TOPIC of another user for a
\* channel name only after the self JOIN for that name. Step by step: the
\* handler that gives a room a name writes the self JOIN for it; and a
\* message of another user for a name is written either after the self JOIN
\* for the name in the same handler, or for a name a room had before the
\* handler ran.
C22_Step ==
    /\ \A name \in NamesOf(rooms') \ NamesOf(rooms) :
           \E j \in 1..Len(sent') : IsSelfJoin(sent'[j], name)
    /\ \A i \in 1..Len(sent') :
           \A name \in {sent'[i].args[k] : k \in 1..Len(sent'[i].args)} :
               IsTraffic(sent'[i], name) =>
                   \/ name \in NamesOf(rooms)
                   \/ \E j \in 1..(i - 1) : IsSelfJoin(sent'[j], name)

C22_JoinedBeforeTraffic == [][C22_Step]_vars

\* C22, witness: bob's JOIN was just written for the channel of a room that
\* was named, and its self JOIN written, by an earlier handler
C22_Witness ==
    /\ handling = Some(MatrixEvent(Some("$j1"), RoomData(r1, Membership(bob, "Join"))))
    /\ r1 \in DOMAIN rooms
    /\ IsSome(rooms[r1].irc_name)
    /\ Len(sent) = 1
    /\ IsTraffic(sent[1], Unwrap(rooms[r1].irc_name))
    /\ sent[1].command = <<"Join">>

\* C23: no two rooms of the table have the same irc_name.
C23_NamesUnique ==
    \A a, b \in DOMAIN rooms :
        (a # b /\ IsSome(rooms[a].irc_name)) => rooms[a].irc_name # rooms[b].irc_name

====
